---- MODULE Spec2Model ----
(***************************************************************************)
(* Model of PresetHandler (dev_prototype.py): the JSON-backed preset store  *)
(* (load_presets, save_presets, add_preset, delete_preset) and the          *)
(* simulated switch (switch_to_preset).                                     *)
(*                                                                          *)
(* A Python dict is an insertion-ordered sequence of entries [k, v] with    *)
(* pairwise distinct keys.  The backing file is missing, unparsable, or a   *)
(* JSON object: a sequence of members whose values carry JSON tokens.       *)
(* An optional value (current_preset) is <<>> for None and <<x>> for x.     *)
(***************************************************************************)
EXTENDS Integers, Sequences, FiniteSets, TLC

VARIABLES
    presets_file,     \* contents of presets.json on disk
    presets,          \* self.presets
    current_preset,   \* self.current_preset
    phase,            \* "start" (before __init__), "ready", "crashed" (__init__ raised)
    pc,               \* position inside switch_to_preset, "idle" between calls
    out,              \* lines printed by the most recent call, in order
    op,               \* the most recent call
    arg,              \* its name argument
    ret,              \* its result: "True", "False", "None", "dict", "IOError", "pending"
    loaded,           \* the dict returned by the most recent load_presets() call
    save_errors       \* number of save_presets calls that raised so far

vars == <<presets_file, presets, current_preset, phase, pc, out, op, arg, ret,
          loaded, save_errors>>

\* At most this many save_presets calls raise in one run.
MaxSaveErrors == 1

None == <<>>
Some(x) == <<x>>

\* Names the caller passes to add_preset, delete_preset and switch_to_preset.
Names == {"", "Work", "Y"}
\* The (description, apps, close_previous) arguments passed to add_preset.
AddInputs == {<<"d2", <<"B", "C">>, TRUE>>, <<"d3", <<"C">>, FALSE>>}

------------------------------------------------------------------------------
\* Python dict operations

Keys(d) == {d[i].k : i \in DOMAIN d}

Contains(d, name) == name \in Keys(d)

GetItem(d, name) == d[CHOOSE i \in DOMAIN d : d[i].k = name].v

SetItem_appends(d, name, v) == Append(d, [k |-> name, v |-> v])

SetItem(d, name, v) ==
    IF Contains(d, name)
    THEN [i \in DOMAIN d |-> IF d[i].k = name THEN [k |-> name, v |-> v] ELSE d[i]]
    ELSE Append(d, [k |-> name, v |-> v])

DelItem_drops_rest(d, name) ==
    SubSeq(d, 1, (CHOOSE i \in DOMAIN d : d[i].k = name) - 1)

DelItem(d, name) == SelectSeq(d, LAMBDA e : e.k # name)

\* preset.get("close_previous", True)
get_close_previous(preset) ==
    IF "close_previous" \in DOMAIN preset THEN preset.close_previous ELSE TRUE

\* Python truth value of self.current_preset: None and "" are false
Truthy(cp) == cp # None /\ cp[1] # ""

RECURSIVE join(_, _)
join(sep, s) ==
    IF s = <<>> THEN ""
    ELSE IF Len(s) = 1 THEN s[1]
    ELSE s[1] \o sep \o join(sep, Tail(s))

------------------------------------------------------------------------------
\* JSON encoding of the store

json_dump_value(v) ==
    [description |-> v.description,
     apps |-> v.apps,
     close_previous |-> IF v.close_previous THEN "true" ELSE "false"]

json_load_value(j) ==
    [description |-> j.description,
     apps |-> j.apps,
     close_previous |-> (j.close_previous = "true")]

json_dump(d) == [i \in DOMAIN d |-> [k |-> d[i].k, v |-> json_dump_value(d[i].v)]]

json_load_keeps_duplicates(doc) ==
    [i \in DOMAIN doc |-> [k |-> doc[i].k, v |-> json_load_value(doc[i].v)]]

\* a repeated member name keeps its first position and its last value
RECURSIVE json_load(_)
json_load(doc) ==
    IF doc = <<>> THEN <<>>
    ELSE LET n == Len(doc)
         IN  SetItem(json_load(SubSeq(doc, 1, n - 1)), doc[n].k,
                     json_load_value(doc[n].v))

Missing == [st |-> "missing", doc |-> <<>>]
Corrupt == [st |-> "corrupt", doc |-> <<>>]
Json(doc) == [st |-> "json", doc |-> doc]

default_presets_gaming_closes ==
    << [k |-> "Work", v |-> [description |-> "Productivity and development workspace",
            apps |-> <<"Safari", "Xcode", "Terminal", "Slack", "Notes">>,
            close_previous |-> TRUE]],
       [k |-> "School", v |-> [description |-> "Educational and learning workspace",
            apps |-> <<"Safari", "Pages", "Keynote", "Numbers", "Mail">>,
            close_previous |-> TRUE]],
       [k |-> "Gaming", v |-> [description |-> "Gaming and entertainment workspace",
            apps |-> <<"Steam", "Discord", "Spotify", "Safari">>,
            close_previous |-> TRUE]],
       [k |-> "Relax", v |-> [description |-> "Relaxation and social media workspace",
            apps |-> <<"Safari", "Messages", "Photos", "Music", "TV">>,
            close_previous |-> FALSE]] >>

default_presets ==
    << [k |-> "Work", v |-> [description |-> "Productivity and development workspace",
            apps |-> <<"Safari", "Xcode", "Terminal", "Slack", "Notes">>,
            close_previous |-> TRUE]],
       [k |-> "School", v |-> [description |-> "Educational and learning workspace",
            apps |-> <<"Safari", "Pages", "Keynote", "Numbers", "Mail">>,
            close_previous |-> TRUE]],
       [k |-> "Gaming", v |-> [description |-> "Gaming and entertainment workspace",
            apps |-> <<"Steam", "Discord", "Spotify", "Safari">>,
            close_previous |-> FALSE]],
       [k |-> "Relax", v |-> [description |-> "Relaxation and social media workspace",
            apps |-> <<"Safari", "Messages", "Photos", "Music", "TV">>,
            close_previous |-> FALSE]] >>

------------------------------------------------------------------------------
\* save_presets and load_presets

\* how one save_presets call ends: the file is rewritten; open() raises and
\* the file is left as it was; or the file is truncated and the write raises
SaveOutcomes == {"written", "open_fails", "write_fails"}

save_presets_drops_last(f, d, o) ==
    CASE o = "written"     -> Json(json_dump(SubSeq(d, 1, Len(d) - 1)))
      [] o = "open_fails"  -> f
      [] o = "write_fails" -> Corrupt

save_presets(f, d, o) ==
    CASE o = "written"     -> Json(json_dump(d))
      [] o = "open_fails"  -> f
      [] o = "write_fails" -> Corrupt

\* the file exists and json.load succeeds
Loads(f) == f.st = "json"

\* result of load_presets() on file f when a save of the defaults ends as o
load_presets(f, o) ==
    IF Loads(f)
    THEN [raised |-> FALSE, value |-> json_load(f.doc), file |-> f]
    ELSE [raised |-> o # "written", value |-> default_presets,
          file |-> save_presets(f, default_presets, o)]

\* a save may raise only while the bound on save errors allows it
MayEnd(o) == o = "written" \/ save_errors < MaxSaveErrors

------------------------------------------------------------------------------
\* files the program may find at startup

FileX == << [k |-> "X", v |-> [description |-> "d", apps |-> <<"A">>,
                               close_previous |-> "false"]] >>

FileDup == << [k |-> "X", v |-> [description |-> "d", apps |-> <<"A">>,
                                 close_previous |-> "false"]],
              [k |-> "", v |-> [description |-> "d", apps |-> <<"A">>,
                                close_previous |-> "true"]],
              [k |-> "X", v |-> [description |-> "d2", apps |-> <<"B", "C">>,
                                 close_previous |-> "true"]] >>

InitialFiles == {Missing, Corrupt, Json(FileX), Json(FileDup)}

Init ==
    /\ presets_file \in InitialFiles
    /\ presets = <<>>
    /\ current_preset = None
    /\ phase = "start"
    /\ pc = "idle"
    /\ out = <<>>
    /\ op = "none"
    /\ arg = ""
    /\ ret = "None"
    /\ loaded = <<>>
    /\ save_errors = 0

\* PresetHandler.__init__
PresetHandler_init ==
    /\ phase = "start"
    /\ \E o \in SaveOutcomes :
         /\ MayEnd(o)
         /\ Loads(presets_file) => o = "written"
         /\ LET r == load_presets(presets_file, o)
            IN  /\ presets_file' = r.file
                /\ presets' = IF r.raised THEN <<>> ELSE r.value
                /\ phase' = IF r.raised THEN "crashed" ELSE "ready"
                /\ ret' = IF r.raised THEN "IOError" ELSE "None"
                /\ save_errors' = IF r.raised THEN save_errors + 1 ELSE save_errors
    /\ current_preset' = None
    /\ op' = "init"
    /\ arg' = ""
    /\ UNCHANGED <<pc, out, loaded>>

Idle == phase = "ready" /\ pc = "idle"

\* a later call of load_presets() on the handler
load_presets_call ==
    /\ Idle
    /\ \E o \in SaveOutcomes :
         /\ MayEnd(o)
         /\ Loads(presets_file) => o = "written"
         /\ LET r == load_presets(presets_file, o)
            IN  /\ presets_file' = r.file
                /\ loaded' = IF r.raised THEN <<>> ELSE r.value
                /\ ret' = IF r.raised THEN "IOError" ELSE "dict"
                /\ save_errors' = IF r.raised THEN save_errors + 1 ELSE save_errors
    /\ op' = "load"
    /\ arg' = ""
    /\ out' = <<>>
    /\ UNCHANGED <<presets, current_preset, phase, pc>>

------------------------------------------------------------------------------
\* add_preset and delete_preset

Record(description, apps, close_previous) ==
    [description |-> description, apps |-> apps, close_previous |-> close_previous]

add_preset_rolls_back(name, description, apps, close_previous) ==
    /\ Idle
    /\ \E o \in SaveOutcomes :
         /\ MayEnd(o)
         /\ presets' = IF o = "written"
                       THEN SetItem(presets, name, Record(description, apps, close_previous))
                       ELSE presets
         /\ presets_file' = save_presets(presets_file,
                SetItem(presets, name, Record(description, apps, close_previous)), o)
         /\ ret' = IF o = "written" THEN "None" ELSE "IOError"
         /\ save_errors' = IF o = "written" THEN save_errors ELSE save_errors + 1
    /\ op' = "add"
    /\ arg' = name
    /\ out' = <<>>
    /\ loaded' = <<>>
    /\ UNCHANGED <<current_preset, phase, pc>>

add_preset(name, description, apps, close_previous) ==
    /\ Idle
    /\ \E o \in SaveOutcomes :
         /\ MayEnd(o)
         /\ presets' = SetItem(presets, name, Record(description, apps, close_previous))
         /\ presets_file' = save_presets(presets_file, presets', o)
         /\ ret' = IF o = "written" THEN "None" ELSE "IOError"
         /\ save_errors' = IF o = "written" THEN save_errors ELSE save_errors + 1
    /\ op' = "add"
    /\ arg' = name
    /\ out' = <<>>
    /\ loaded' = <<>>
    /\ UNCHANGED <<current_preset, phase, pc>>

delete_preset_clears_current(name) ==
    /\ Idle
    /\ IF Contains(presets, name)
       THEN /\ \E o \in SaveOutcomes :
                 /\ MayEnd(o)
                 /\ presets' = DelItem(presets, name)
                 /\ presets_file' = save_presets(presets_file, presets', o)
                 /\ ret' = IF o = "written" THEN "True" ELSE "IOError"
                 /\ save_errors' = IF o = "written" THEN save_errors ELSE save_errors + 1
            /\ current_preset' = IF current_preset = Some(name) THEN None
                                 ELSE current_preset
       ELSE /\ ret' = "False"
            /\ UNCHANGED <<presets, presets_file, save_errors, current_preset>>
    /\ op' = "delete"
    /\ arg' = name
    /\ out' = <<>>
    /\ loaded' = <<>>
    /\ UNCHANGED <<phase, pc>>

delete_preset(name) ==
    /\ Idle
    /\ IF Contains(presets, name)
       THEN \E o \in SaveOutcomes :
                 /\ MayEnd(o)
                 /\ presets' = DelItem(presets, name)
                 /\ presets_file' = save_presets(presets_file, presets', o)
                 /\ ret' = IF o = "written" THEN "True" ELSE "IOError"
                 /\ save_errors' = IF o = "written" THEN save_errors ELSE save_errors + 1
       ELSE /\ ret' = "False"
            /\ UNCHANGED <<presets, presets_file, save_errors>>
    /\ op' = "delete"
    /\ arg' = name
    /\ out' = <<>>
    /\ loaded' = <<>>
    /\ UNCHANGED <<current_preset, phase, pc>>

------------------------------------------------------------------------------
\* switch_to_preset, one step per statement; arg holds preset_name

closing_notification(cp) == [kind |-> "closing", text |-> cp[1]]

switching_notification(name) == [kind |-> "switching", text |-> name]

opening_notification_reversed(preset) ==
    [kind |-> "opening",
     text |-> join(", ", [i \in DOMAIN preset.apps |->
                             preset.apps[Len(preset.apps) + 1 - i]])]

opening_notification(preset) == [kind |-> "opening", text |-> join(", ", preset.apps)]

description_notification(preset) == [kind |-> "description", text |-> preset.description]

switch_to_preset_sets_current(name) ==
    /\ Idle
    /\ IF ~Contains(presets, name)
       THEN /\ ret' = "False"
            /\ current_preset' = Some(name)
            /\ UNCHANGED pc
       ELSE /\ ret' = "pending"
            /\ pc' = "close_previous"
            /\ UNCHANGED current_preset
    /\ op' = "switch"
    /\ arg' = name
    /\ out' = <<>>
    /\ loaded' = <<>>
    /\ UNCHANGED <<presets_file, presets, phase, save_errors>>

switch_to_preset(name) ==
    /\ Idle
    /\ IF ~Contains(presets, name)
       THEN /\ ret' = "False"
            /\ UNCHANGED pc
       ELSE /\ ret' = "pending"
            /\ pc' = "close_previous"
    /\ op' = "switch"
    /\ arg' = name
    /\ out' = <<>>
    /\ loaded' = <<>>
    /\ UNCHANGED <<presets_file, presets, current_preset, phase, save_errors>>

switch_frame == UNCHANGED <<presets_file, presets, phase, op, arg, loaded, save_errors>>

switch_close_previous ==
    /\ pc = "close_previous"
    /\ out' = IF Truthy(current_preset) /\ get_close_previous(GetItem(presets, arg))
              THEN Append(out, closing_notification(current_preset))
              ELSE out
    /\ pc' = "print_switching"
    /\ UNCHANGED <<current_preset, ret>>
    /\ switch_frame

switch_print_switching ==
    /\ pc = "print_switching"
    /\ out' = Append(out, switching_notification(arg))
    /\ pc' = "print_opening"
    /\ UNCHANGED <<current_preset, ret>>
    /\ switch_frame

switch_print_opening ==
    /\ pc = "print_opening"
    /\ out' = Append(out, opening_notification(GetItem(presets, arg)))
    /\ pc' = "print_description"
    /\ UNCHANGED <<current_preset, ret>>
    /\ switch_frame

switch_print_description ==
    /\ pc = "print_description"
    /\ out' = Append(out, description_notification(GetItem(presets, arg)))
    /\ pc' = "set_current"
    /\ UNCHANGED <<current_preset, ret>>
    /\ switch_frame

switch_set_current ==
    /\ pc = "set_current"
    /\ current_preset' = Some(arg)
    /\ ret' = "True"
    /\ pc' = "idle"
    /\ UNCHANGED out
    /\ switch_frame

Next ==
    \/ PresetHandler_init
    \/ load_presets_call
    \/ \E name \in Names, a \in AddInputs : add_preset(name, a[1], a[2], a[3])
    \/ \E name \in Names : delete_preset(name)
    \/ \E name \in Names : switch_to_preset(name)
    \/ switch_close_previous
    \/ switch_print_switching
    \/ switch_print_opening
    \/ switch_print_description
    \/ switch_set_current

Spec == Init /\ [][Next]_vars

TypeOK ==
    /\ presets_file.st \in {"missing", "corrupt", "json"}
    /\ phase \in {"start", "ready", "crashed"}
    /\ save_errors \in 0..MaxSaveErrors
    /\ Len(current_preset) <= 1

------------------------------------------------------------------------------
\* Vocabulary of the properties

\* the store as a mapping from name to record
AsMap(d) == [k \in Keys(d) |-> GetItem(d, k)]

UniqueKeys(d) == \A i, j \in DOMAIN d : d[i].k = d[j].k => i = j

\* the file parses and its contents equal the in-memory store
Mirrors(f, d) == Loads(f) /\ json_load(f.doc) = d

Printed(kind) == {i \in DOMAIN out : out[i].kind = kind}

NonClosing(s) == SelectSeq(s, LAMBDA n : n.kind # "closing")

\* the first n apps, comma separated, in stored order
RECURSIVE ListingUpTo(_, _)
ListingUpTo(apps, n) ==
    IF n = 0 THEN ""
    ELSE IF n = 1 THEN apps[1]
    ELSE ListingUpTo(apps, n - 1) \o ", " \o apps[n]

\* the four presets documented as defaults
DocumentedDefaults ==
    [k \in {"Work", "School", "Gaming", "Relax"} |->
        CASE k = "Work" ->
               [description |-> "Productivity and development workspace",
                apps |-> <<"Safari", "Xcode", "Terminal", "Slack", "Notes">>,
                close_previous |-> TRUE]
          [] k = "School" ->
               [description |-> "Educational and learning workspace",
                apps |-> <<"Safari", "Pages", "Keynote", "Numbers", "Mail">>,
                close_previous |-> TRUE]
          [] k = "Gaming" ->
               [description |-> "Gaming and entertainment workspace",
                apps |-> <<"Steam", "Discord", "Spotify", "Safari">>,
                close_previous |-> FALSE]
          [] k = "Relax" ->
               [description |-> "Relaxation and social media workspace",
                apps |-> <<"Safari", "Messages", "Photos", "Music", "TV">>,
                close_previous |-> FALSE]]

IsDefaults(d) == Len(d) = 4 /\ UniqueKeys(d) /\ AsMap(d) = DocumentedDefaults

\* this step is a call of the named handler (not a later step of a switch)
Calls(o) == pc = "idle" /\ op' = o /\ (phase = "ready" \/ o = "init")

------------------------------------------------------------------------------
\* C1: in a successful switch_to_preset(B), once the close check has run and
\* until current_preset is assigned, a "closing" notification has been
\* printed if and only if current_preset is set (is not None) and B's own
\* close_previous flag is true; when printed it is the first line, carries
\* the previous current_preset and precedes the "opening" line.
C1_ClosingIffCurrentSetAndTargetFlag ==
    pc \in {"print_switching", "print_opening", "print_description", "set_current"} =>
        /\ Printed("closing") # {}
             <=> (current_preset # None /\ GetItem(presets, arg).close_previous)
        /\ \A i \in Printed("closing") :
             /\ i = 1
             /\ out[i].text = current_preset[1]
             /\ \A j \in Printed("opening") : i < j

\* C2: switch_to_preset(name) with a name that is not a key returns False,
\* prints nothing and changes neither current_preset, the store nor the file.
C2_FailedSwitchChangesNothing ==
    [][(Calls("switch") /\ ~Contains(presets, arg')) =>
          /\ ret' = "False"
          /\ pc' = "idle"
          /\ out' = <<>>
          /\ current_preset' = current_preset
          /\ presets' = presets
          /\ presets_file' = presets_file]_vars

C2_Witness ==
    /\ op = "switch" /\ ret = "False"
    /\ current_preset # None /\ ~Contains(presets, arg)

\* C3: a switch_to_preset(name) on a key never reports failure and never
\* touches the store or the file; current_preset changes only once the
\* "switching", "opening" (apps in stored order) and "description" lines have
\* been printed in that order, and then the call returns True with
\* current_preset = name.
C3_SwitchPrintsThenSetsCurrent ==
    [][(op' = "switch" /\ Contains(presets, arg')) =>
          LET preset == GetItem(presets, arg')
              lines  == << [kind |-> "switching", text |-> arg'],
                           [kind |-> "opening",
                            text |-> ListingUpTo(preset.apps, Len(preset.apps))],
                           [kind |-> "description", text |-> preset.description] >>
          IN  /\ ret' # "False"
              /\ presets' = presets
              /\ presets_file' = presets_file
              /\ current_preset' # current_preset => NonClosing(out) = lines
              /\ ret' = "True" <=> (pc = "set_current" /\ pc' = "idle")
              /\ ret' = "True" =>
                   /\ NonClosing(out') = lines
                   /\ current_preset' = Some(arg')]_vars

C3_Witness ==
    /\ op = "switch" /\ ret = "True" /\ arg = "Y"
    /\ GetItem(presets, "Y").apps = <<"B", "C">>
    /\ Len(out) = 4

\* C4: delete_preset(name) on a key removes exactly that entry and, when the
\* save does not raise, leaves the file holding the new store and returns
\* True; on an absent name it returns False and changes neither the store
\* nor the file; a delete_preset of the same name right after one that
\* returned True returns False.
C4_DeleteRemovesExactlyOne ==
    [][Calls("delete") =>
          /\ Contains(presets, arg') =>
               /\ UniqueKeys(presets')
               /\ Keys(presets') = Keys(presets) \ {arg'}
               /\ \A k \in Keys(presets') : GetItem(presets', k) = GetItem(presets, k)
               /\ ret' \in {"True", "IOError"}
               /\ ret' = "True" => Mirrors(presets_file', presets')
          /\ ~Contains(presets, arg') =>
               /\ ret' = "False"
               /\ presets' = presets
               /\ presets_file' = presets_file
          /\ (op = "delete" /\ ret = "True" /\ arg' = arg) => ret' = "False"]_vars

C4_Witness ==
    /\ op = "delete" /\ ret = "True" /\ arg = "Work"
    /\ Keys(presets) = {"School", "Gaming", "Relax"}

\* C5 as stated: whenever load_presets finds the file missing or unreadable
\* it returns the four defaults, leaves them in the file and raises nothing.
C5_LoadFallbackNeverRaises ==
    [][((Calls("init") \/ Calls("load")) /\ ~Loads(presets_file)) =>
          /\ ret' # "IOError"
          /\ IsDefaults(IF op' = "init" THEN presets' ELSE loaded')
          /\ Loads(presets_file') /\ IsDefaults(json_load(presets_file'.doc))]_vars

\* C5 amended: load_presets on a missing or unreadable file saves the four
\* defaults; if that save succeeds it returns exactly the four defaults, the
\* file holds exactly them and nothing is raised; if that save raises, the
\* error reaches the caller, no store is returned and the file is left as it
\* was or truncated.
C5_LoadFallbackDefaultsUnlessSaveRaises ==
    [][((Calls("init") \/ Calls("load")) /\ ~Loads(presets_file)) =>
          IF save_errors' = save_errors
          THEN /\ ret' # "IOError"
               /\ IsDefaults(IF op' = "init" THEN presets' ELSE loaded')
               /\ Loads(presets_file') /\ IsDefaults(json_load(presets_file'.doc))
          ELSE /\ ret' = "IOError"
               /\ (IF op' = "init" THEN presets' ELSE loaded') = <<>>
               /\ op' = "init" => phase' = "crashed"
               /\ presets_file' \in {presets_file, Corrupt}]_vars

C5_Witness ==
    /\ op = "load" /\ ret = "dict" /\ save_errors > 0
    /\ IsDefaults(loaded) /\ ~IsDefaults(presets)
    /\ Loads(presets_file) /\ IsDefaults(json_load(presets_file.doc))

\* C6: after an add_preset(name, description, apps, close_previous) whose
\* save does not raise, load_presets of the file yields every prior entry
\* other than name unchanged plus name mapped to exactly the given record;
\* an existing name keeps the number of entries, a new one adds one; a
\* load_presets() call right after such an add returns the in-memory store.
C6_AddThenLoad ==
    [][/\ \A n \in Names, a \in AddInputs :
            (Calls("add") /\ arg' = n /\ ret' # "IOError"
                          /\ add_preset(n, a[1], a[2], a[3])) =>
                \A l \in {load_presets(presets_file', "written")} :
                    /\ ~l.raised /\ l.file = presets_file'
                    /\ UniqueKeys(l.value)
                    /\ Keys(l.value) = Keys(presets) \cup {n}
                    /\ GetItem(l.value, n) =
                         [description |-> a[1], apps |-> a[2], close_previous |-> a[3]]
                    /\ \A k \in Keys(presets) \ {n} :
                         GetItem(l.value, k) = GetItem(presets, k)
                    /\ Len(l.value) = IF Contains(presets, n) THEN Len(presets)
                                      ELSE Len(presets) + 1
       /\ (op = "add" /\ ret = "None" /\ Calls("load")) =>
            (ret' = "dict" /\ loaded' = presets)]_vars

C6_Witness ==
    /\ op = "load" /\ ret = "dict" /\ loaded = presets
    /\ Contains(loaded, "Y") /\ Contains(loaded, "X")
    /\ GetItem(loaded, "Y") = [description |-> "d2", apps |-> <<"B", "C">>,
                               close_previous |-> TRUE]

\* C7 as stated: every key of the store is non-empty and unique.
C7_KeysNonEmptyAndUnique ==
    phase = "ready" => (UniqueKeys(presets) /\ "" \notin Keys(presets))

\* C7 amended: the keys of the store (and of every dict load_presets
\* returns) are unique; the empty name becomes a key only by add_preset
\* called with the empty name or by loading a file that has such a member.
C7_KeysUniqueEmptyOnlyIfPassed ==
    [][/\ UniqueKeys(presets') /\ UniqueKeys(loaded')
       /\ ("" \in Keys(presets') /\ "" \notin Keys(presets)) =>
            \/ Calls("add") /\ arg' = ""
            \/ Calls("init") /\ \E i \in DOMAIN presets_file.doc :
                                    presets_file.doc[i].k = ""]_vars

C7_Witness ==
    /\ phase = "ready" /\ op = "add" /\ arg = "Y"
    /\ Len(presets) = 3 /\ Keys(presets) = {"", "X", "Y"}
    /\ GetItem(presets, "X").description = "d2"

\* C8: current_preset is None when construction ends; it changes only in
\* the last step of a successful switch_to_preset, to that call's name;
\* add_preset, delete_preset (also of the preset it names), load_presets and
\* a failed switch leave it alone, and once set it is never None again.
C8_CurrentPresetOnlyBySwitch ==
    [][/\ op' = "init" => current_preset' = None
       /\ current_preset' # current_preset =>
            /\ op' = "switch" /\ ret' = "True" /\ pc = "set_current"
            /\ current_preset' = Some(arg')
       /\ (op' = "switch" /\ ret' = "True") => current_preset' = Some(arg')
       /\ current_preset # None => current_preset' # None]_vars

C8_Witness ==
    /\ op = "delete" /\ ret = "True" /\ arg = "Y"
    /\ current_preset = Some("Y") /\ ~Contains(presets, "Y")

\* C9: once constructed, while no save has raised the file parses to the
\* in-memory store; and right after any add_preset or delete_preset that
\* saved without raising the file is the dump of the whole store.
C9_FileMirrorsStore ==
    (phase = "ready" /\ pc = "idle") =>
        /\ save_errors = 0 => Mirrors(presets_file, presets)
        /\ ((op = "add" /\ ret = "None") \/ (op = "delete" /\ ret = "True")) =>
             presets_file = Json(json_dump(presets))

C9_Witness ==
    /\ op = "add" /\ ret = "None" /\ save_errors > 0
    /\ Len(presets) = 6 /\ presets_file = Json(json_dump(presets))

\* C10 as stated: when the save inside add_preset or delete_preset raises,
\* the error reaches the caller, the in-memory change is kept, and the store
\* and the file differ afterwards.
C10_FailedSaveLeavesFileDifferent ==
    [][((Calls("add") \/ Calls("delete")) /\ save_errors' # save_errors) =>
          /\ ret' = "IOError"
          /\ op' = "add" => Contains(presets', arg')
          /\ op' = "delete" => ~Contains(presets', arg')
          /\ ~Mirrors(presets_file', presets')]_vars

\* C10 amended: when the save inside add_preset or delete_preset raises,
\* the error reaches the caller and the in-memory change is kept (the entry
\* is inserted, overwritten or removed as if the save had succeeded); the
\* file is left as it was or truncated, and it differs from the store
\* whenever it mirrored the store before the call and the call changed the
\* store.
C10_FailedSaveKeepsMutation ==
    [][/\ \A n \in Names, a \in AddInputs :
            (Calls("add") /\ arg' = n /\ save_errors' # save_errors
                          /\ add_preset(n, a[1], a[2], a[3])) =>
                /\ ret' = "IOError"
                /\ Keys(presets') = Keys(presets) \cup {n}
                /\ GetItem(presets', n) =
                     [description |-> a[1], apps |-> a[2], close_previous |-> a[3]]
                /\ \A k \in Keys(presets) \ {n} :
                     GetItem(presets', k) = GetItem(presets, k)
       /\ (Calls("delete") /\ save_errors' # save_errors) =>
            /\ ret' = "IOError"
            /\ Contains(presets, arg')
            /\ Keys(presets') = Keys(presets) \ {arg'}
            /\ \A k \in Keys(presets') : GetItem(presets', k) = GetItem(presets, k)
       /\ ((Calls("add") \/ Calls("delete")) /\ save_errors' # save_errors) =>
            /\ presets_file' \in {presets_file, Corrupt}
            /\ (Mirrors(presets_file, presets) /\ presets' # presets) =>
                 ~Mirrors(presets_file', presets')]_vars

C10_Witness ==
    /\ op = "delete" /\ ret = "IOError" /\ arg = "Work"
    /\ ~Contains(presets, "Work")
    /\ Loads(presets_file) /\ Contains(json_load(presets_file.doc), "Work")

====
